---------------------------- MODULE Spec2Model ----------------------------
(***************************************************************************)
(* The game loop iterator of src/game_iterator.rs (GameIterator) as a      *)
(* state machine.  One action per arm of the `match self.state` of         *)
(* GameIterator::next; a pull (one call of next) is the run of arms from   *)
(* the first arm executed after a return up to the next return.  The       *)
(* window (should_close, get_size, swap_buffers, poll_event), the clock    *)
(* (time::precise_time_ns) and sleep are the environment.                  *)
(***************************************************************************)
EXTENDS Integers, Sequences, FiniteSets

VARIABLES
    state,            \* GameIterator.state
    last_update,      \* GameIterator.last_update
    last_frame,       \* GameIterator.last_frame
    dt_update_in_ns,  \* GameIterator.dt_update_in_ns
    dt_frame_in_ns,   \* GameIterator.dt_frame_in_ns
    dt,               \* GameIterator.dt  (f64, kept as the fraction num/den)
    clock,            \* the value time::precise_time_ns() returns when called now
    queue,            \* the window's pending input, oldest first: [ev, age]
    closed,           \* the window's close flag, what should_close() returns
    cur,              \* the pull in progress, or the last one: [ret, poll, age]
    ops,              \* history: the calls made by the arm executed last, in order
    settings,         \* history: the GameIteratorSettings given to GameIterator::new
    start,            \* history: `start` of GameIterator::new
    ended,            \* history: how many pulls have returned None (counted up to 2)
    updates,          \* history: number of Update events returned
    size,             \* history: what get_size() returned in the arm executed last, or NoSize
    lastStep,         \* history: tag of the arm executed last
    read,             \* history: the last value read from the clock
    slept,            \* history: the call of sleep in the arm executed last, or NoSleep
    drainPolled,      \* history: poll_event results (but NoEvent) since the last UpdateLoop arm
    drainEmitted,     \* history: events returned since the last UpdateLoop arm
    frames,           \* history: Render events and the Updates between them
    prev,             \* history: the type of what the pull before cur returned
    owed,             \* history: Render events returned minus calls of swap_buffers
    firstCheck        \* history: what the first call of should_close returned

vars == << state, last_update, last_frame, dt_update_in_ns, dt_frame_in_ns, dt,
           clock, queue, closed, cur, ops, settings, start, ended, updates, size, lastStep, read, slept,
           drainPolled, drainEmitted, frames, prev, owed, firstCheck >>

sched == << state, last_update, last_frame >>
config == << dt_update_in_ns, dt_frame_in_ns, dt, settings, start >>
calls == << prev, owed, firstCheck >>

---------------------------------------------------------------------------
(* Bounds of the model *)

\* the clock of the general specification stops at MaxTime
MaxTime == 10
\* the clock value at construction
StartTime == 1
\* inputs pending in the window plus inputs polled in the current drain
MaxQueue == 2
\* the Update events counted by the history (more than any of the bounded
\* clocks allows with an update interval of 1 ns or more)
MaxCount == 8
\* the clock of the input specification stops at InputMaxTime
InputMaxTime == 7
\* the clock of the 120/60 scenario stops at ScnMaxTime
ScnMaxTime == 60000000

---------------------------------------------------------------------------
(* Constants and settings *)

billion == 1000000000

\* the largest i32
I32Max == 2147483647

\* GameIteratorSettings values of the general specification (update and frame
\* intervals of 2 and 4 ns, and of 3 and 2 ns, where both divisions truncate)
Settings ==
    { [updates_per_second |-> 500000000, max_frames_per_second |-> 250000000],
      [updates_per_second |-> 300000000, max_frames_per_second |-> 400000000] }

\* the settings of the input specification (intervals of 2 and 4 ns)
InputSettings ==
    { [updates_per_second |-> 500000000, max_frames_per_second |-> 250000000] }

\* the settings of the example in the documentation of GameIterator
ExampleSettings ==
    { [updates_per_second |-> 120, max_frames_per_second |-> 60] }

---------------------------------------------------------------------------
(* GameIteratorState *)

RenderState == [tag |-> "RenderState"]
SwapBuffersState == [tag |-> "SwapBuffersState"]
UpdateLoopState == [tag |-> "UpdateLoopState"]
HandleEventsState == [tag |-> "HandleEventsState"]
MouseRelativeMoveState(dx, dy) ==
    [tag |-> "MouseRelativeMoveState", dx |-> dx, dy |-> dy]
UpdateState == [tag |-> "UpdateState"]

---------------------------------------------------------------------------
(* GameEvent, and what next() returns *)

Render(ext_ns, w, h) ==
    [type |-> "Render", ext_dt |-> [num |-> ext_ns, den |-> billion],
     width |-> w, height |-> h]
Update(d) == [type |-> "Update", dt |-> d]
KeyPress(key) == [type |-> "KeyPress", key |-> key]
KeyRelease(key) == [type |-> "KeyRelease", key |-> key]
MousePress(button) == [type |-> "MousePress", button |-> button]
MouseRelease(button) == [type |-> "MouseRelease", button |-> button]
MouseMove(x, y) == [type |-> "MouseMove", x |-> x, y |-> y]
MouseRelativeMove(dx, dy) == [type |-> "MouseRelativeMove", dx |-> dx, dy |-> dy]
MouseScroll(x, y) == [type |-> "MouseScroll", x |-> x, y |-> y]

\* Option<GameEvent>::None
None == [type |-> "None"]
\* next() has not returned yet
Pending == [type |-> "Pending"]

---------------------------------------------------------------------------
(* event::Event, the results of poll_event *)

NoRelative == [some |-> FALSE]
Relative(dx, dy) == [some |-> TRUE, dx |-> dx, dy |-> dy]

KeyPressed(key) == [type |-> "KeyPressed", key |-> key]
KeyReleased(key) == [type |-> "KeyReleased", key |-> key]
MouseButtonPressed(b) == [type |-> "MouseButtonPressed", button |-> b]
MouseButtonReleased(b) == [type |-> "MouseButtonReleased", button |-> b]
MouseMoved(x, y, rel) == [type |-> "MouseMoved", x |-> x, y |-> y, relative_move |-> rel]
MouseScrolled(x, y) == [type |-> "MouseScrolled", x |-> x, y |-> y]
NoEvent == [type |-> "NoEvent"]
\* poll_event has not been called yet
NoPoll == [type |-> "NoPoll"]

\* the inputs the window reports in the general specification
FewInputs == { KeyPressed(1), MouseMoved(1, 2, Relative(3, 4)) }

\* the inputs the window can report
Inputs ==
    { KeyPressed(1), KeyReleased(1), MouseButtonPressed(1), MouseButtonReleased(1),
      MouseMoved(1, 2, NoRelative), MouseMoved(1, 2, Relative(3, 4)),
      MouseMoved(2, 1, Relative(4, 3)), MouseScrolled(1, 2) }

\* the sizes the window can report
Sizes == { <<0, 0>>, <<0, 240>>, <<320, 0>>, <<320, 240>> }
NoSize == <<>>


---------------------------------------------------------------------------
(* Arithmetic of the source *)

\* no clock value, no count
Never == 0 - 1

\* billion / updates_per_second, billion / max_frames_per_second (u64 division)
IntervalNs(rate) == billion \div rate

\* 1.0 / updates_per_second as f64, kept as a fraction
FixedDt(updates_per_second) == [num |-> 1, den |-> updates_per_second]

\* start_render - self.last_update on u64: a negative value stands for the
\* wrapped result 2^64 + (a - b)
SubU64(a, b) == a - b

\* cmp::min
Min(a, b) == IF a <= b THEN a ELSE b

\* mutant: a window is drawable as soon as one dimension is not zero
Drawable_Either(w, h) == w # 0 \/ h # 0

\* w != 0 && h != 0
Drawable(w, h) == w # 0 /\ h # 0

\* mutant: the Render arm does not record when the frame began
MarkFrame_Keep(old_last_frame, start_render) == old_last_frame

\* self.last_frame = start_render
MarkFrame(old_last_frame, start_render) == start_render

\* mutant: the frame is recorded only when it is drawn
LastFrameAfterRender_OnlyDrawn(old_last_frame, start_render, w, h) ==
    IF Drawable(w, h) THEN start_render ELSE old_last_frame

\* self.last_frame after the RenderState arm has found the window open: it is
\* assigned before get_size is called, whatever the size
LastFrameAfterRender(old_last_frame, start_render, w, h) ==
    MarkFrame(old_last_frame, start_render)

\* mutant: the frame is recorded before the window is asked whether to close
LastFrameAfterClose_Marked(old_last_frame, current_time) == current_time

\* self.last_frame after the RenderState arm has returned None: the arm
\* returns before it reads the clock
LastFrameAfterClose(old_last_frame, current_time) == old_last_frame

\* mutant: the buffers are not swapped after a Render event
StateAfterRender_NoSwap == UpdateLoopState

\* self.state after the RenderState arm has returned a Render event
StateAfterRender == SwapBuffersState

\* mutant: the comparison reversed
NotYetDue_Reversed(next_event, current_time) == next_event < current_time

\* next_event > current_time
NotYetDue(next_event, current_time) == next_event > current_time

\* cmp::min(next_frame, next_update)
NextEvent(next_frame, next_update) == Min(next_frame, next_update)

\* mutant: the update is made without draining the input first
UpdateBranch_NoDrain == UpdateState

\* the state the else branch of UpdateLoopState chooses
UpdateBranch == HandleEventsState

\* mutant: an update that is due at the same time as a frame goes first
DueState_UpdateFirst(next_frame, next_update) ==
    IF next_update <= next_frame THEN UpdateBranch ELSE RenderState

\* the state UpdateLoopState chooses once next_event is due:
\* `if next_event == next_frame` RenderState, else HandleEventsState
DueState(next_frame, next_update) ==
    IF NextEvent(next_frame, next_update) = next_frame
    THEN RenderState
    ELSE UpdateBranch

\* mutant: the arm moves on after it has returned None
StateAfterClose_Advance == UpdateLoopState

\* self.state after RenderState has returned None: it is left as it is
StateAfterClose == RenderState

\* `x as i32` of a u64: the low 32 bits, read as two's complement (a
\* difference below zero has wrapped as a u64, and its low 32 bits read as
\* two's complement are the difference again)
CastI32(x) ==
    IF 0 - I32Max - 1 <= x /\ x <= I32Max THEN x
    ELSE LET half == I32Max + 1
             low == x % (2 * half)
         IN  IF low >= half THEN low - 2 * half ELSE low

\* mutant: sleeps until the absolute time instead of for the remaining time
SleepNs_Absolute(next_event, current_time) == CastI32(next_event)

\* (next_event - current_time) as i32, the nanoseconds handed to sleep
SleepNs(next_event, current_time) == CastI32(next_event - current_time)

\* mutant: last_update is reset to the clock
AdvanceUpdate_Reset(old_last_update, interval, current_time) == current_time

\* self.last_update += self.dt_update_in_ns
AdvanceUpdate(old_last_update, interval, current_time) == old_last_update + interval

\* mutant: a released key is reported as pressed
InputEvent_KeyMixup(p) ==
    CASE p.type = "KeyPressed" -> KeyPress(p.key)
      [] p.type = "KeyReleased" -> KeyPress(p.key)
      [] p.type = "MouseButtonPressed" -> MousePress(p.button)
      [] p.type = "MouseButtonReleased" -> MouseRelease(p.button)
      [] p.type = "MouseMoved" -> MouseMove(p.x, p.y)
      [] p.type = "MouseScrolled" -> MouseScroll(p.x, p.y)

\* the event returned for a poll_event result other than NoEvent
InputEvent(p) ==
    CASE p.type = "KeyPressed" -> KeyPress(p.key)
      [] p.type = "KeyReleased" -> KeyRelease(p.key)
      [] p.type = "MouseButtonPressed" -> MousePress(p.button)
      [] p.type = "MouseButtonReleased" -> MouseRelease(p.button)
      [] p.type = "MouseMoved" -> MouseMove(p.x, p.y)
      [] p.type = "MouseScrolled" -> MouseScroll(p.x, p.y)

\* mutant: the two components of the delta exchanged
Staged_Swapped(dx, dy) == MouseRelativeMoveState(dy, dx)

\* the payload staged for MouseRelativeMoveState
Staged(dx, dy) == MouseRelativeMoveState(dx, dy)

\* self.state after the HandleEventsState arm has polled p
AfterPoll(p) ==
    CASE p.type = "NoEvent" -> UpdateState
      [] p.type = "MouseMoved" /\ p.relative_move.some ->
            Staged(p.relative_move.dx, p.relative_move.dy)
      [] OTHER -> HandleEventsState

\* mutant: the drain is left after a relative move
AfterRelativeMove_Leave == UpdateLoopState

\* self.state after the MouseRelativeMoveState arm
AfterRelativeMove == HandleEventsState

---------------------------------------------------------------------------
(* Bookkeeping of pulls *)

NotStarted == [type |-> "NotStarted"]
NoPull == [ret |-> NotStarted, poll |-> NoPoll, age |-> 0]
NewPull == [ret |-> Pending, poll |-> NoPoll, age |-> 0]

\* the record of the pull the arm executed now belongs to
Base == IF cur.ret = Pending THEN cur ELSE NewPull
\* a count of Update events, kept up to MaxCount
Counted(n) == IF n < MaxCount THEN n + 1 ELSE n
\* the type of what the pull before that one returned
BasePrev == IF cur.ret = Pending THEN prev ELSE cur.ret.type
NoSleep == [ns |-> 0, at |-> Never, next_frame |-> Never, next_update |-> Never, in |-> "none"]
\* at: the clock value of the last Render event; since: its distance from the
\* Render event before; lag: at - last_update then; n: Update events since
NoFrames == [at |-> Never, since |-> Never, lag |-> Never, n |-> 0]

---------------------------------------------------------------------------
(* GameIterator::new *)

New(s, now) ==
    /\ clock = now
    /\ state = RenderState
    /\ last_update = clock
    /\ last_frame = clock
    /\ dt_update_in_ns = IntervalNs(s.updates_per_second)
    /\ dt_frame_in_ns = IntervalNs(s.max_frames_per_second)
    /\ dt = FixedDt(s.updates_per_second)
    /\ settings = s
    /\ queue = << >>
    /\ closed = FALSE
    /\ ended = 0
    /\ cur = NoPull
    /\ ops = << >>
    /\ start = clock
    /\ updates = 0
    /\ size = NoSize
    /\ lastStep = "new"
    /\ read = clock
    /\ slept = NoSleep
    /\ drainPolled = << >>
    /\ drainEmitted = << >>
    /\ frames = NoFrames
    /\ prev = NotStarted.type
    /\ owed = 0
    /\ firstCheck = "none"

Init == \E s \in Settings : New(s, StartTime)


---------------------------------------------------------------------------
(* The arms of GameIterator::next *)

\* RenderState; sz is what get_size() returns
RenderArm(sz) ==
    /\ state = RenderState
    /\ lastStep' = state.tag
    /\ prev' = BasePrev
    /\ firstCheck' = IF firstCheck # "none" THEN firstCheck
                     ELSE IF closed THEN "closed" ELSE "open"
    /\ IF closed
       THEN /\ cur' = [Base EXCEPT !.ret = None]
            /\ ops' = << "should_close" >>
            /\ size' = NoSize
            /\ state' = StateAfterClose
            /\ ended' = IF ended < 2 THEN ended + 1 ELSE ended
            /\ last_frame' = LastFrameAfterClose(last_frame, clock)
            /\ UNCHANGED << read, frames, owed >>
       ELSE LET start_render == clock
                w == sz[1]
                h == sz[2]
            IN  /\ read' = start_render
                /\ ops' = << "should_close", "precise_time_ns", "get_size" >>
                /\ last_frame' = LastFrameAfterRender(last_frame, start_render, w, h)
                /\ size' = sz
                /\ UNCHANGED ended
                /\ IF Drawable(w, h)
                   THEN /\ state' = StateAfterRender
                        /\ owed' = owed + 1
                        /\ cur' = [Base EXCEPT
                                     !.ret = Render(SubU64(start_render, last_update), w, h)]
                        /\ frames' = [at |-> start_render,
                                      since |-> IF frames.at = Never THEN Never
                                                ELSE start_render - frames.at,
                                      lag |-> start_render - last_update,
                                      n |-> 0]
                   ELSE /\ state' = UpdateLoopState
                        /\ cur' = Base
                        /\ UNCHANGED << frames, owed >>
    /\ slept' = NoSleep
    /\ UNCHANGED << last_update, config, clock, queue, closed, updates,
                    drainPolled, drainEmitted >>

\* SwapBuffersState
SwapBuffersArm ==
    /\ state = SwapBuffersState
    /\ lastStep' = state.tag
    /\ cur' = Base
    /\ prev' = BasePrev
    /\ owed' = owed - 1
    /\ UNCHANGED firstCheck
    /\ ops' = << "swap_buffers" >>
    /\ state' = UpdateLoopState
    /\ size' = NoSize
    /\ slept' = NoSleep
    /\ UNCHANGED << last_update, last_frame, config, clock, queue, closed, ended,
                    updates, read, drainPolled, drainEmitted, frames >>

\* UpdateLoopState; sleep returns after the requested time or at once (the
\* clock may advance further before it is read again, see Tick)
UpdateLoopArm(limit) ==
    /\ state = UpdateLoopState
    /\ lastStep' = state.tag
    /\ prev' = BasePrev
    /\ UNCHANGED << owed, firstCheck >>
    /\ LET current_time == clock
           next_frame == last_frame + dt_frame_in_ns
           next_update == last_update + dt_update_in_ns
           next_event == NextEvent(next_frame, next_update)
       IN  /\ read' = current_time
           /\ cur' = Base
           /\ IF NotYetDue(next_event, current_time)
              THEN LET ns == SleepNs(next_event, current_time)
                   IN  /\ slept' = [ns |-> ns, at |-> current_time,
                                    next_frame |-> next_frame,
                                    next_update |-> next_update, in |-> state.tag]
                       /\ \E woke \in {0, IF ns > 0 THEN ns ELSE 0} :
                             /\ clock + woke <= limit
                             /\ clock' = clock + woke
                       /\ ops' = << "precise_time_ns", "sleep" >>
                       /\ UNCHANGED state
              ELSE /\ state' = DueState(next_frame, next_update)
                   /\ ops' = << "precise_time_ns" >>
                   /\ slept' = NoSleep
                   /\ UNCHANGED clock
    /\ size' = NoSize
    /\ drainPolled' = << >>
    /\ drainEmitted' = << >>
    /\ UNCHANGED << last_update, last_frame, config, queue, closed, ended, updates,
                    frames >>

\* HandleEventsState; poll_event() returns the oldest pending input, or NoEvent
HandleEventsArm ==
    /\ state = HandleEventsState
    /\ lastStep' = state.tag
    /\ prev' = BasePrev
    /\ UNCHANGED << owed, firstCheck >>
    /\ LET p == IF queue = << >> THEN NoEvent ELSE Head(queue).ev
           age == IF queue = << >> THEN 0 ELSE Head(queue).age
       IN  /\ queue' = IF queue = << >> THEN queue ELSE Tail(queue)
           /\ state' = AfterPoll(p)
           /\ ops' = << "poll_event" >>
           /\ IF p = NoEvent
              THEN /\ cur' = [Base EXCEPT !.poll = p, !.age = age]
                   /\ UNCHANGED << drainPolled, drainEmitted >>
              ELSE /\ cur' = [Base EXCEPT !.poll = p, !.age = age, !.ret = InputEvent(p)]
                   /\ drainPolled' = Append(drainPolled, p)
                   /\ drainEmitted' = Append(drainEmitted, InputEvent(p))
    /\ size' = NoSize
    /\ slept' = NoSleep
    /\ UNCHANGED << last_update, last_frame, config, clock, closed, ended, updates,
                    read, frames >>

\* MouseRelativeMoveState(dx, dy)
MouseRelativeMoveArm ==
    /\ state.tag = "MouseRelativeMoveState"
    /\ lastStep' = state.tag
    /\ prev' = BasePrev
    /\ UNCHANGED << owed, firstCheck >>
    /\ state' = AfterRelativeMove
    /\ cur' = [Base EXCEPT !.ret = MouseRelativeMove(state.dx, state.dy)]
    /\ ops' = << >>
    /\ drainEmitted' = Append(drainEmitted, MouseRelativeMove(state.dx, state.dy))
    /\ size' = NoSize
    /\ slept' = NoSleep
    /\ UNCHANGED << last_update, last_frame, config, clock, queue, closed, ended,
                    updates, read, drainPolled, frames >>

\* UpdateState
UpdateArm ==
    /\ state = UpdateState
    /\ lastStep' = state.tag
    /\ prev' = BasePrev
    /\ UNCHANGED << owed, firstCheck >>
    /\ state' = UpdateLoopState
    /\ last_update' = AdvanceUpdate(last_update, dt_update_in_ns, clock)
    /\ cur' = [Base EXCEPT !.ret = Update(dt)]
    /\ ops' = << >>
    /\ updates' = Counted(updates)
    /\ frames' = [frames EXCEPT !.n = Counted(@)]
    /\ queue' = [i \in 1..Len(queue) |-> [queue[i] EXCEPT !.age = @ + 1]]
    /\ size' = NoSize
    /\ slept' = NoSleep
    /\ UNCHANGED << last_frame, config, clock, closed, ended, read,
                    drainPolled, drainEmitted >>

---------------------------------------------------------------------------
(* The environment *)

\* time passes
Tick(d, limit) ==
    /\ clock + d <= limit
    /\ clock' = clock + d
    /\ UNCHANGED << sched, config, queue, closed, ended, cur, ops, updates, size,
                    lastStep, read, slept, drainPolled, drainEmitted, frames, calls >>

\* an input becomes available to poll_event
Arrive(e) ==
    /\ Len(queue) + Len(drainPolled) < MaxQueue
    /\ queue' = Append(queue, [ev |-> e, age |-> 0])
    /\ UNCHANGED << sched, config, clock, closed, ended, cur, ops, updates, size,
                    lastStep, read, slept, drainPolled, drainEmitted, frames, calls >>

\* the window is asked to close; should_close() returns true from now on
Close ==
    /\ ~closed
    /\ closed' = TRUE
    /\ UNCHANGED << sched, config, clock, queue, ended, cur, ops, updates, size,
                    lastStep, read, slept, drainPolled, drainEmitted, frames, calls >>

---------------------------------------------------------------------------
(* Specifications *)

Next ==
    \/ \E sz \in Sizes : RenderArm(sz)
    \/ SwapBuffersArm
    \/ UpdateLoopArm(MaxTime)
    \/ HandleEventsArm
    \/ MouseRelativeMoveArm
    \/ UpdateArm
    \/ Tick(1, MaxTime)
    \/ \E e \in FewInputs : Arrive(e)
    \/ Close

Spec == Init /\ [][Next]_vars


(* The input specification: every kind of input, one setting *)

InitInput == \E s \in InputSettings : New(s, StartTime)

NextInput ==
    \/ \E sz \in Sizes : RenderArm(sz)
    \/ SwapBuffersArm
    \/ UpdateLoopArm(InputMaxTime)
    \/ HandleEventsArm
    \/ MouseRelativeMoveArm
    \/ UpdateArm
    \/ Tick(1, InputMaxTime)
    \/ \E e \in Inputs : Arrive(e)
    \/ Close

SpecInput == InitInput /\ [][NextInput]_vars

(* The scenario of the example: 120 updates and 60 frames per second, a     *)
(* window of 320x240 that never closes and never reports input.  The clock  *)
(* advances by a third of an update interval, by a whole one, or by three.  *)

ExampleSteps == { 2777777, 8333333, 25000000 }

InitExample == \E s \in ExampleSettings : New(s, StartTime)

NextExample ==
    \/ RenderArm(<<320, 240>>)
    \/ SwapBuffersArm
    \/ UpdateLoopArm(ScnMaxTime)
    \/ HandleEventsArm
    \/ UpdateArm
    \/ \E d \in ExampleSteps : Tick(d, ScnMaxTime)

SpecExample == InitExample /\ [][NextExample]_vars

(* The minimised window: get_size() always returns 0x0, the window never     *)
(* closes and never reports input.  The arms run whenever they can (a pull   *)
(* in progress executes its loop, and the consumer pulls again) and the      *)
(* clock advances as long as it is below the horizon ZeroMaxTime.            *)

ZeroMaxTime == 12

NextZero ==
    \/ RenderArm(<<0, 0>>)
    \/ UpdateLoopArm(ZeroMaxTime)
    \/ HandleEventsArm
    \/ UpdateArm
    \/ Tick(1, ZeroMaxTime)

FairZero ==
    /\ WF_vars(RenderArm(<<0, 0>>))
    /\ WF_vars(UpdateLoopArm(ZeroMaxTime))
    /\ WF_vars(HandleEventsArm)
    /\ WF_vars(UpdateArm)
    /\ WF_vars(Tick(1, ZeroMaxTime))

SpecZero == Init /\ [][NextZero]_vars /\ FairZero

(* The scheduler running on: every arm is executed whenever it can be (a     *)
(* pull in progress executes its loop, and the consumer pulls again), and    *)
(* the clock advances as long as it is below the horizon MaxTime.  Nothing   *)
(* is required of the window: it may close or not, and report input or not   *)
(* (a drain ends, as Arrive limits the inputs of one drain).  The settings   *)
(* are those of Settings and one with more than 1_000_000_000 updates per    *)
(* second.                                                                   *)

FastSettings ==
    { [updates_per_second |-> 2000000000, max_frames_per_second |-> 250000000] }

InitFair == \E s \in Settings \cup FastSettings : New(s, StartTime)

Fair ==
    /\ WF_vars(\E sz \in Sizes : RenderArm(sz))
    /\ WF_vars(SwapBuffersArm)
    /\ WF_vars(UpdateLoopArm(MaxTime))
    /\ WF_vars(HandleEventsArm)
    /\ WF_vars(MouseRelativeMoveArm)
    /\ WF_vars(UpdateArm)
    /\ WF_vars(Tick(1, MaxTime))

SpecFair == InitFair /\ [][Next]_vars /\ Fair

(* The slowest rates: one or two updates and frames per second, the          *)
(* intervals being 1_000_000_000 ns and 500_000_000 ns; the clock advances   *)
(* by 0.3 s or by 0.5 s, the window never closes and reports no input.       *)

SlowMaxTime == 1100000000

SlowSettings ==
    { [updates_per_second |-> 1, max_frames_per_second |-> 1],
      [updates_per_second |-> 1, max_frames_per_second |-> 2],
      [updates_per_second |-> 2, max_frames_per_second |-> 1] }

SlowSteps == { 300000000, 500000000 }

InitSlow == \E s \in SlowSettings : New(s, StartTime)

NextSlow ==
    \/ \E sz \in Sizes : RenderArm(sz)
    \/ SwapBuffersArm
    \/ UpdateLoopArm(SlowMaxTime)
    \/ HandleEventsArm
    \/ UpdateArm
    \/ \E d \in SlowSteps : Tick(d, SlowMaxTime)

SpecSlow == InitSlow /\ [][NextSlow]_vars

(* The same with a window that never closes and always has a size that can  *)
(* be drawn; input may arrive.                                               *)

DrawableSizes == { sz \in Sizes : Drawable(sz[1], sz[2]) }

NextOpen ==
    \/ \E sz \in DrawableSizes : RenderArm(sz)
    \/ SwapBuffersArm
    \/ UpdateLoopArm(MaxTime)
    \/ HandleEventsArm
    \/ MouseRelativeMoveArm
    \/ UpdateArm
    \/ Tick(1, MaxTime)
    \/ \E e \in FewInputs : Arrive(e)

FairOpen ==
    /\ WF_vars(\E sz \in DrawableSizes : RenderArm(sz))
    /\ WF_vars(SwapBuffersArm)
    /\ WF_vars(UpdateLoopArm(MaxTime))
    /\ WF_vars(HandleEventsArm)
    /\ WF_vars(MouseRelativeMoveArm)
    /\ WF_vars(UpdateArm)
    /\ WF_vars(Tick(1, MaxTime))

SpecOpen == InitFair /\ [][NextOpen]_vars /\ FairOpen


---------------------------------------------------------------------------
(* Properties *)

UpdateInterval == billion \div settings.updates_per_second
FrameInterval == billion \div settings.max_frames_per_second

InputKinds ==
    { "KeyPress", "KeyRelease", "MousePress", "MouseRelease", "MouseMove", "MouseScroll" }

\* the kind of input event a poll_event result is to be returned as
KindFor(p) ==
    CASE p.type = "KeyPressed" -> "KeyPress"
      [] p.type = "KeyReleased" -> "KeyRelease"
      [] p.type = "MouseButtonPressed" -> "MousePress"
      [] p.type = "MouseButtonReleased" -> "MouseRelease"
      [] p.type = "MouseMoved" -> "MouseMove"
      [] p.type = "MouseScrolled" -> "MouseScroll"

\* the events of a drain but the relative moves
Direct(events) == SelectSeq(events, LAMBDA e : e.type # "MouseRelativeMove")

\* the index in drainPolled of the poll that led to drainEmitted[i]
PollIndex(i) ==
    Cardinality({ j \in 1..i : drainEmitted[j].type # "MouseRelativeMove" })

\* C1: input is drained before every logic step.  An Update event is returned
\* only by a pull whose last poll_event returned NoEvent (the UpdateState arm
\* runs right after that poll, in the same pull), and from the UpdateLoop
\* decision on, the input events returned are the results of poll_event but
\* NoEvent, one event of the matching kind each, in poll order, none dropped.
C1_DrainedBeforeUpdate ==
    /\ cur.ret.type = "Update" => cur.poll = NoEvent
    /\ state = UpdateState =>
          /\ cur.ret = Pending
          /\ cur.poll = NoEvent
          /\ ops = << "poll_event" >>
    /\ LET direct == Direct(drainEmitted)
       IN  /\ Len(direct) = Len(drainPolled)
           /\ \A i \in 1..Len(direct) :
                 /\ direct[i].type \in InputKinds
                 /\ direct[i].type = KindFor(drainPolled[i])

\* an Update event returned after a drain of two different inputs
C1_Witness ==
    /\ cur.ret.type = "Update"
    /\ Len(drainPolled) = 2
    /\ drainPolled[1].type # drainPolled[2].type

\* C2: last_update is the construction timestamp plus the number of Update
\* events returned times 1_000_000_000 / updates_per_second, whatever the
\* clock read.
C2_LastUpdateFixedStep ==
    last_update = start + updates * (1000000000 \div settings.updates_per_second)

\* two Update events returned, the clock running ahead of last_update
C2_Witness ==
    /\ updates >= 2
    /\ cur.ret.type = "Update"
    /\ clock > last_update + UpdateInterval

\* C3: last_update never exceeds the current time, and a Render event carries
\* the time sampled in its Render step minus last_update, in nanoseconds over
\* 1e9, which is not negative.
C3_ExtrapolationNonNegative ==
    /\ last_update <= clock
    /\ cur.ret.type = "Render" =>
          /\ cur.ret.ext_dt.num >= 0
          /\ cur.ret.ext_dt.num = read - last_update
          /\ cur.ret.ext_dt.den = 1000000000
          /\ "precise_time_ns" \in { ops[i] : i \in 1..Len(ops) }

\* a Render event after an Update, extrapolating by more than an update interval
C3_Witness ==
    /\ cur.ret.type = "Render"
    /\ updates >= 1
    /\ cur.ret.ext_dt.num > UpdateInterval

\* C4: once a pull has returned None, every later pull returns None as well,
\* having called should_close and nothing else: no event, no swap_buffers,
\* no get_size, no poll_event.
C4_EndsPermanently ==
    ended > 0 =>
        /\ cur.ret = None
        /\ ops = << "should_close" >>
        /\ lastStep = "RenderState"
        /\ state = RenderState

\* a second pull has returned None, after Render and Update events
C4_Witness ==
    /\ ended = 2
    /\ updates >= 1
    /\ frames.at # Never

\* C5: a Render arm whose get_size reports a zero width or height returns no
\* event and goes to UpdateLoopState; swap_buffers is called only from
\* SwapBuffersState, which is entered only with a Render event returned; a
\* Render event carries the reported dimensions, both nonzero.
C5_NoRenderOnZeroSize ==
    /\ (lastStep = "RenderState" /\ size # NoSize /\ (size[1] = 0 \/ size[2] = 0)) =>
          /\ state = UpdateLoopState
          /\ cur.ret = Pending
          /\ ops = << "should_close", "precise_time_ns", "get_size" >>
    /\ state = SwapBuffersState => cur.ret.type = "Render"
    /\ "swap_buffers" \in { ops[i] : i \in 1..Len(ops) } => lastStep = "SwapBuffersState"
    /\ cur.ret.type = "Render" =>
          /\ size # NoSize
          /\ size[1] # 0 /\ size[2] # 0
          /\ cur.ret.width = size[1] /\ cur.ret.height = size[2]

\* a Render arm has seen a zero width after an earlier Render event
C5_Witness ==
    /\ lastStep = "RenderState"
    /\ size = <<0, 240>>
    /\ frames.at # Never
    /\ state = UpdateLoopState


\* C6: a mouse move polled with a relative delta is returned as MouseMove and,
\* by the very next pull, as MouseRelativeMove with that delta, without a call
\* of poll_event and with HandleEventsState as the next state; every
\* MouseRelativeMove follows the MouseMove of the poll that carried its delta.
\* A mouse move polled without a delta yields MouseMove alone.
C6_RelativeMoveFollowsMove ==
    /\ \A i \in 1..Len(drainEmitted) :
          LET e == drainEmitted[i]
              p == drainPolled[PollIndex(i)]
          IN  /\ e.type = "MouseMove" =>
                    /\ p.type = "MouseMoved"
                    /\ IF p.relative_move.some
                       THEN IF i < Len(drainEmitted)
                            THEN drainEmitted[i + 1] =
                                    MouseRelativeMove(p.relative_move.dx, p.relative_move.dy)
                            ELSE /\ state = MouseRelativeMoveState(p.relative_move.dx,
                                                                    p.relative_move.dy)
                                 /\ cur.ret = e
                       ELSE IF i < Len(drainEmitted)
                            THEN drainEmitted[i + 1].type # "MouseRelativeMove"
                            ELSE state.tag # "MouseRelativeMoveState"
              /\ e.type = "MouseRelativeMove" =>
                    /\ i > 1
                    /\ drainEmitted[i - 1].type = "MouseMove"
                    /\ p.type = "MouseMoved"
                    /\ p.relative_move.some
                    /\ e.dx = p.relative_move.dx
                    /\ e.dy = p.relative_move.dy
    /\ state.tag = "MouseRelativeMoveState" =>
          /\ cur.ret.type = "MouseMove"
          /\ lastStep = "HandleEventsState"
    /\ lastStep = "MouseRelativeMoveState" =>
          /\ ops = << >>
          /\ cur.ret.type = "MouseRelativeMove"
          /\ cur.poll = NoPoll
          /\ state = HandleEventsState

\* two mouse moves with different deltas drained, the second delta just returned
C6_Witness ==
    /\ lastStep = "MouseRelativeMoveState"
    /\ Len(drainEmitted) = 4
    /\ drainEmitted[2] = MouseRelativeMove(3, 4)
    /\ drainEmitted[4] = MouseRelativeMove(4, 3)

\* C7: no input waits for more than one Update event: an input pending in the
\* window has seen at most one Update event returned since it arrived, and so
\* has every input at the time its event is returned.
C7_LatencyOneUpdate ==
    /\ \A i \in 1..Len(queue) : queue[i].age <= 1
    /\ cur.ret.type \in InputKinds => cur.age <= 1

\* an input that arrived before an Update event is returned after it
C7_Witness ==
    /\ cur.ret.type \in InputKinds
    /\ cur.age = 1

\* C8: the clock value sampled for a Render event is at least one frame
\* interval after the value sampled for the Render event before it, and
\* UpdateLoopState goes to RenderState only when last_frame + frame interval
\* is not after the clock.
C8_FrameRateCapped ==
    /\ frames.since # Never => frames.since >= 1000000000 \div settings.max_frames_per_second
    /\ (lastStep = "UpdateLoopState" /\ state = RenderState) =>
          last_frame + (1000000000 \div settings.max_frames_per_second) <= read

\* a second Render event exactly one frame interval after the first
C8_Witness ==
    /\ cur.ret.type = "Render"
    /\ frames.since = FrameInterval

\* C9: sleep is called only by the UpdateLoopState arm, only when
\* min(last_frame + frame interval, last_update + update interval) is after
\* the time sampled, for exactly the difference, which is positive and at
\* most the smaller of the two intervals.
C9_SleepExactRemaining ==
    /\ "sleep" \in { ops[i] : i \in 1..Len(ops) } <=> slept # NoSleep
    /\ slept # NoSleep =>
          LET next_event == Min(last_frame + FrameInterval, last_update + UpdateInterval)
          IN  /\ lastStep = "UpdateLoopState"
              /\ slept.in = "UpdateLoopState"
              /\ slept.at = read
              /\ next_event > slept.at
              /\ slept.ns = next_event - slept.at
              /\ slept.ns > 0
              /\ slept.ns <= Min(FrameInterval, UpdateInterval)
              /\ state = UpdateLoopState
              /\ cur.ret = Pending

\* a sleep for a whole update interval, after an Update event
C9_Witness ==
    /\ slept # NoSleep
    /\ updates >= 1
    /\ slept.ns = UpdateInterval


\* the least n with n * d >= x, for x >= 0 and d > 0
CeilDiv(x, d) == (x + d - 1) \div d

\* C10 as stated: with 120 updates and 60 frames per second, a window of
\* 320x240 that never closes and no input, exactly two Update events are
\* returned between two consecutive Render events, from the first Render on.
C10_ExactlyTwoUpdates ==
    (state = RenderState /\ frames.at # Never) => frames.n = 2

\* C10 as amended: in that scenario the number of Update events between two
\* consecutive Render events is ceil(lag / update interval) + 1, where lag is
\* the time sampled for the earlier Render minus last_update at that time:
\* two when 0 < lag <= update interval, one when the lag is zero, more when
\* the logic is more than one interval behind.
C10_UpdatesFollowLag ==
    /\ (state = RenderState /\ frames.at # Never) =>
          frames.n = CeilDiv(frames.lag, UpdateInterval) + 1
    /\ frames.at # Never =>
          /\ frames.lag >= 0
          /\ frames.n <= CeilDiv(frames.lag, UpdateInterval) + 1
    /\ (frames.at # Never /\ frames.lag > 0 /\ frames.lag <= UpdateInterval
          /\ state = RenderState) => frames.n = 2

\* the next Render is due after a single Update: the earlier Render was
\* sampled at last_update exactly
C10_Witness ==
    /\ state = RenderState
    /\ frames.at # Never
    /\ frames.lag = 0
    /\ frames.n = 1

\* C11: with a window that never closes, always reports 0x0 and has no input,
\* no Render event is ever returned and no buffer swapped, every pull that
\* returns returns an Update event, the k-th of them not before the clock
\* reads start + k * update_interval, and the pulls do return: the loop does
\* not cycle between RenderState and UpdateLoopState for ever, so that Update
\* events are returned until the next one is due beyond the horizon of the
\* clock.
C11_ZeroSizeOnlyUpdates ==
    /\ [](/\ cur.ret.type \in { "NotStarted", "Pending", "Update" }
          /\ frames.at = Never
          /\ owed = 0
          /\ state # SwapBuffersState
          /\ cur.ret.type = "Update" => clock >= start + updates * UpdateInterval)
    /\ <>(last_update + UpdateInterval > ZeroMaxTime)

\* the third Update event returned, after a 0x0 frame was skipped in its pull
C11_Witness ==
    /\ cur.ret.type = "Update"
    /\ updates = 3
    /\ size = NoSize
    /\ last_frame > start
    /\ frames.at = Never

\* C12: if the first call of should_close on a fresh scheduler returns true,
\* the first pull returns None: no event has been returned, should_close is the
\* only function called (no get_size, swap_buffers, poll_event, clock reading
\* or sleep), and last_update and last_frame are those of construction.
C12_ClosedAtFirstCheck ==
    firstCheck = "closed" =>
        /\ cur.ret = None
        /\ prev \in { "NotStarted", "None" }
        /\ ops = << "should_close" >>
        /\ lastStep = "RenderState"
        /\ size = NoSize
        /\ owed = 0
        /\ drainPolled = << >>
        /\ drainEmitted = << >>
        /\ slept = NoSleep
        /\ updates = 0
        /\ frames = NoFrames
        /\ read = start
        /\ last_update = start
        /\ last_frame = start

\* the first pull has returned None, some time after construction
C12_Witness ==
    /\ firstCheck = "closed"
    /\ ended = 1
    /\ cur.ret = None
    /\ clock > start

\* C13: when the UpdateLoopState arm finds min(next_frame, next_update) not
\* after the clock it read, it goes to RenderState if and only if next_frame <=
\* next_update (the frame wins the tie) and to HandleEventsState if and only if
\* next_update < next_frame; no step taken in UpdateLoopState, this arm
\* included, changes last_frame or last_update.
C13_DueDecision ==
    /\ [](lastStep = "UpdateLoopState" /\ slept = NoSleep =>
             LET next_frame == last_frame + dt_frame_in_ns
                 next_update == last_update + dt_update_in_ns
             IN  /\ Min(next_frame, next_update) <= read
                 /\ state \in { RenderState, HandleEventsState }
                 /\ state = RenderState <=> next_frame <= next_update
                 /\ state = HandleEventsState <=> next_update < next_frame
                 /\ ops = << "precise_time_ns" >>)
    /\ [][state = UpdateLoopState =>
             /\ last_frame' = last_frame
             /\ last_update' = last_update]_vars

\* the frame and the update due at the same time: RenderState is chosen
C13_Witness ==
    /\ lastStep = "UpdateLoopState"
    /\ slept = NoSleep
    /\ state = RenderState
    /\ last_frame + dt_frame_in_ns = last_update + dt_update_in_ns
    /\ updates > 0

\* the functions called by the arm executed last
Called == { ops[i] : i \in 1..Len(ops) }

\* C14: swap_buffers is called once for each Render event returned: by the
\* first arm of the pull that follows the Render event, before that pull reads
\* the clock, sleeps, polls or returns anything; it is never called but for a
\* Render event returned and not yet presented, and the arm that calls it
\* returns no event.
C14_SwapOncePerRender ==
    /\ owed = (IF state = SwapBuffersState THEN 1 ELSE 0)
    /\ state = SwapBuffersState <=> cur.ret.type = "Render"
    /\ "swap_buffers" \in Called <=> lastStep = "SwapBuffersState"
    /\ lastStep = "SwapBuffersState" =>
          /\ ops = << "swap_buffers" >>
          /\ prev = "Render"
          /\ cur = NewPull
          /\ state = UpdateLoopState

\* the buffers swapped for the second Render event
C14_Witness ==
    /\ lastStep = "SwapBuffersState"
    /\ frames.since # Never
    /\ owed = 0

\* C15 as stated: last_frame is the clock value at which the most recent Render
\* event began (the construction timestamp before the first one): it is set
\* only by a RenderState arm that returns a Render event, and a frame skipped
\* for a zero dimension leaves it unchanged.
C15_LastFrameIsLastRender ==
    last_frame = (IF frames.at = Never THEN start ELSE frames.at)

\* C15, amended: last_frame is the clock value read by the most recent
\* RenderState arm that found the window open, whether the frame was drawn or
\* skipped for a zero dimension: such an arm sets last_frame to the clock it
\* reads before it asks for the size, and no other step changes last_frame (a
\* RenderState arm that returns None does not).
C15_LastFrameIsLastOpenRenderStep ==
    /\ [](lastStep = "RenderState" /\ size # NoSize =>
             /\ last_frame = read
             /\ "get_size" \in Called)
    /\ [](cur.ret.type = "Render" => last_frame = frames.at)
    /\ [](frames.at # Never => last_frame >= frames.at)
    /\ [][last_frame' # last_frame =>
             /\ state = RenderState
             /\ ~closed
             /\ lastStep' = "RenderState"
             /\ size' # NoSize
             /\ last_frame' = clock]_vars

\* a frame skipped for a zero dimension has moved last_frame past the clock
\* value of the most recent Render event
C15_Witness ==
    /\ lastStep = "RenderState"
    /\ size # NoSize
    /\ ~Drawable(size[1], size[2])
    /\ state = UpdateLoopState
    /\ frames.at # Never
    /\ last_frame > frames.at

\* C16: should_close is called by the RenderState arm only; and once it returns
\* true, with the clock advancing, the drains ending and the consumer pulling,
\* the scheduler reaches RenderState and a pull returns None (here: whenever
\* the next frame is due within the horizon of the clock).
C16_CloseEndsSequence ==
    /\ []("should_close" \in Called => lastStep = "RenderState")
    /\ [](lastStep # "RenderState" => "should_close" \notin Called)
    /\ [](closed /\ (state = RenderState \/ last_frame + dt_frame_in_ns <= MaxTime)
             => <>(ended > 0 /\ cur.ret = None))

\* C16 for the settings whose update interval is 1 ns or more: there the
\* sequence ends once the window is closed
ClosingEndsForPositiveInterval ==
    [](dt_update_in_ns > 0 /\ closed
          /\ (state = RenderState \/ last_frame + dt_frame_in_ns <= MaxTime)
          => <>(ended > 0 /\ cur.ret = None))

\* the window is closed and the next frame is overdue, and pulls go on
\* returning Update events: the update interval is 0 ns, so the next update is
\* always due and always before the next frame
C16_Witness ==
    /\ closed
    /\ ended = 0
    /\ dt_update_in_ns = 0
    /\ cur.ret.type = "Update"
    /\ prev = "Update"
    /\ last_frame + dt_frame_in_ns < clock
    /\ updates = MaxCount

\* C17: neither schedule starves the other.  With a window that never closes
\* and always has a nonzero size, drains that end, a clock that advances (by
\* any amount between two arms, so the logic may lag) and a consumer that
\* pulls, Update events and Render events both keep being returned: last_update
\* counts the Update events and last_frame is the time of the last Render
\* event, and both advance until the next update and the next frame are due
\* beyond the horizon of the clock.
C17_NeitherStarves ==
    /\ [](last_update = start + updates * dt_update_in_ns)
    /\ [](last_frame = (IF frames.at = Never THEN start ELSE frames.at))
    /\ <>(last_update + dt_update_in_ns > MaxTime)
    /\ <>(last_frame + dt_frame_in_ns > MaxTime)

\* C17 for the settings whose update interval is 1 ns or more: there neither
\* schedule starves the other
NeitherStarvesForPositiveInterval ==
    /\ <>(dt_update_in_ns = 0 \/ last_update + dt_update_in_ns > MaxTime)
    /\ <>(dt_update_in_ns = 0 \/ last_frame + dt_frame_in_ns > MaxTime)

\* the next frame is overdue and pulls go on returning Update events: the
\* update interval is 0 ns, so the next update is always due and always before
\* the next frame
C17_Witness ==
    /\ ~closed
    /\ dt_update_in_ns = 0
    /\ cur.ret.type = "Update"
    /\ prev = "Update"
    /\ frames.at # Never
    /\ last_frame + dt_frame_in_ns < clock
    /\ frames.n = MaxCount

\* the types of the events a drain returns
DrainKinds == InputKinds \cup { "MouseRelativeMove" }

\* C18: a Render event never directly follows an input event.  From the moment
\* UpdateLoopState has chosen HandleEventsState until the Update event is
\* returned, only input events are returned and only poll_event is called (no
\* should_close, get_size, swap_buffers, clock reading or sleep); so the event
\* returned before a Render event is an Update or a Render event, or there is
\* none.
C18_NoRenderAfterInput ==
    /\ cur.ret.type = "Render" => prev \in { "Update", "Render", "NotStarted" }
    /\ prev \in DrainKinds => cur.ret.type \in DrainKinds \cup { "Update", "Pending" }
    /\ cur.ret.type \in DrainKinds =>
          /\ state.tag \in { "HandleEventsState", "MouseRelativeMoveState" }
          /\ Called \subseteq { "poll_event" }
    /\ state.tag \in { "HandleEventsState", "MouseRelativeMoveState", "UpdateState" } =>
          /\ lastStep \in { "UpdateLoopState", "HandleEventsState",
                             "MouseRelativeMoveState" }
          /\ lastStep = "UpdateLoopState" => ops = << "precise_time_ns" >>
          /\ lastStep # "UpdateLoopState" => Called \subseteq { "poll_event" }
          /\ slept = NoSleep
    /\ cur.ret.type = "Update" /\ lastStep = "UpdateState" =>
          /\ ops = << >>
          /\ prev \in DrainKinds \cup { "Update", "Render", "NotStarted" }

\* an Update event returned right after a relative move, a Render event
\* having been returned before the drain
C18_Witness ==
    /\ cur.ret.type = "Update"
    /\ prev = "MouseRelativeMove"
    /\ frames.at # Never
    /\ Len(drainEmitted) >= 2

\* C19: with one update or frame per second or more and a clock that does not
\* go back, the number of nanoseconds passed to sleep is next_event -
\* current_time unchanged by the cast to i32: it is at least 1 and at most
\* 1_000_000_000, which is less than 2^31.
C19_SleepFitsI32 ==
    slept # NoSleep =>
        LET remaining == NextEvent(slept.next_frame, slept.next_update) - slept.at
        IN  /\ settings.updates_per_second >= 1
            /\ settings.max_frames_per_second >= 1
            /\ remaining >= 1
            /\ remaining <= billion
            /\ billion <= I32Max
            /\ slept.ns = remaining
            /\ slept.ns > 0

\* a sleep of a whole second: one update and one frame per second, the first
\* frame drawn at the clock value of construction
C19_Witness ==
    /\ slept # NoSleep
    /\ slept.ns = billion
    /\ settings.updates_per_second = 1
    /\ frames.at = start

=========================================================================
